---- MODULE Spec2Model ----
(***************************************************************************)
(* A model of uplook (src/uplook/__init__.py): the UpLook resolution       *)
(* engine, its Container of resolved values and the lookup expression      *)
(* grammar.                                                                *)
(*                                                                         *)
(* Python strings are sequences of one-character strings.  Python values   *)
(* are records [kind, val]; kind tells the Python type.                    *)
(***************************************************************************)
EXTENDS Integers, Sequences, FiniteSets, TLC

(***************************************************************************)
(* Python values                                                           *)
(***************************************************************************)
PyStr(s)   == [kind |-> "str", val |-> s]
PyInt(n)   == [kind |-> "int", val |-> n]
PyBool(b)  == [kind |-> "bool", val |-> b]
PyFloat(w, f) == [kind |-> "float", val |-> <<w, f>>]
PyNone     == [kind |-> "none", val |-> <<>>]
PyDict(items) == [kind |-> "dict", val |-> items]

\* class Undef: the marker of an absent reference or default
Undef == [kind |-> "undef", val |-> <<>>]

\* class Container: the attributes of the instance, in insertion order
Container(items) == [kind |-> "container", val |-> items]

\* one key/value pair of a dict or of a Container's __dict__
Item(k, v) == [key |-> k, value |-> v]

\* the closures returned by __generateDynamicLookup
lookupNoRef(function) == [kind |-> "lookupNoRef", val |-> <<function>>]
lookupRef(function, reference, default) ==
    [kind |-> "lookupRef", val |-> <<function, reference, default>>]

\* hasattr(value, '__call__')
IsCallable(v) == v.kind \in {"lookupNoRef", "lookupRef"}

(***************************************************************************)
(* Outcomes of a call: a returned value or a raised exception              *)
(***************************************************************************)
Return(v) == [status |-> "ok", val |-> v]
Raise(e)  == [status |-> e, val |-> PyNone]

(***************************************************************************)
(* Characters and string helpers                                           *)
(***************************************************************************)
Digits == {"0", "1", "2", "3", "4", "5", "6", "7", "8", "9"}
Letters == {"a", "b", "c", "d", "e", "f", "g", "h", "i", "j", "k", "l", "m",
            "n", "o", "p", "q", "r", "s", "t", "u", "v", "w", "x", "y", "z"}

\* regular expression class \w
IsWord(c) == c \in Letters \cup Digits \cup {"_"}

\* regular expression class \s, and the characters str.strip() removes
IsSpace(c) == c \in {" ", "\t", "\n", "\r"}

SubStr(s, from, to) == IF from > to THEN <<>> ELSE SubSeq(s, from, to)

RECURSIVE lstrip(_)
lstrip(s) == IF s # <<>> /\ IsSpace(Head(s)) THEN lstrip(Tail(s)) ELSE s

RECURSIVE rstrip(_)
rstrip(s) == IF s # <<>> /\ IsSpace(s[Len(s)])
             THEN rstrip(SubStr(s, 1, Len(s) - 1)) ELSE s

\* str.replace('"', ''): every double quote removed
RECURSIVE RemoveQuotes(_)
RemoveQuotes(s) == IF s = <<>> THEN <<>>
                   ELSE IF Head(s) = "\"" THEN RemoveQuotes(Tail(s))
                   ELSE <<Head(s)>> \o RemoveQuotes(Tail(s))

AllDigits(s) == s # <<>> /\ \A i \in 1..Len(s) : s[i] \in Digits

DigitVal(c) == CASE c = "0" -> 0 [] c = "1" -> 1 [] c = "2" -> 2 [] c = "3" -> 3
                 [] c = "4" -> 4 [] c = "5" -> 5 [] c = "6" -> 6 [] c = "7" -> 7
                 [] c = "8" -> 8 [] c = "9" -> 9

\* int(value) of a string of decimal digits
RECURSIVE ToInt(_)
ToInt(s) == IF s = <<>> THEN 0
            ELSE 10 * ToInt(SubStr(s, 1, Len(s) - 1)) + DigitVal(s[Len(s)])

RECURSIVE StripZeros(_)
StripZeros(s) == IF s # <<>> /\ s[Len(s)] = "0"
                 THEN StripZeros(SubStr(s, 1, Len(s) - 1)) ELSE s

\* index of the first occurrence of c in s, 0 when there is none
FirstIndex(s, c) == IF \E i \in 1..Len(s) : s[i] = c
                    THEN CHOOSE i \in 1..Len(s) :
                           s[i] = c /\ \A j \in 1..(i - 1) : s[j] # c
                    ELSE 0

\* re.match('^\d+\.\d+$', value), d the index of the first "."
FloatTextAt(s, d) == d > 0 /\ AllDigits(SubStr(s, 1, d - 1))
                           /\ AllDigits(SubStr(s, d + 1, Len(s)))
IsFloatText(s) == FloatTextAt(s, FirstIndex(s, "."))

\* float(value): the whole part and the fraction digits without trailing zeros
FloatAt(s, d) == PyFloat(ToInt(SubStr(s, 1, d - 1)),
                         StripZeros(SubStr(s, d + 1, Len(s))))
ToFloat(s) == FloatAt(s, FirstIndex(s, "."))

\* v under the name that F gives it: a local variable of the code
Bind(v, F(_)) == F(v)

(***************************************************************************)
(* __processRef: the argument text of a lookup expression                  *)
(***************************************************************************)
\* m.group(3) when the optional ", default" part did not take part in the match
GroupNone == <<"None">>

getString(value) ==
    IF value = GroupNone THEN Return(Undef)
    ELSE IF value # <<>> /\ value[Len(value)] = "\"" THEN Return(PyStr(RemoveQuotes(value)))
    ELSE IF value = <<"t", "r", "u", "e">> THEN Return(PyBool(TRUE))
    ELSE IF value = <<"f", "a", "l", "s", "e">> THEN Return(PyBool(FALSE))
    ELSE IF value = <<"n", "o", "n", "e">> THEN Return(PyNone)
    ELSE IF AllDigits(value) THEN Return(PyInt(ToInt(value)))
    ELSE IF IsFloatText(value) THEN Return(ToFloat(value))
    ELSE Raise("InvalidValue")

NoNewline(s) == \A i \in 1..Len(s) : s[i] # "\n"

\* The groups of
\*   ^((\"?.*?\"?)|false|true|none)(?:,\s*((\"?.*?\"?)|false|true|none))?$
\* group 1 is lazy and is followed by an optional part that starts with a
\* comma, so it ends before the first comma (at index c, 0 when there is
\* none); \s* is greedy and group 3 takes the rest up to the end.  "."
\* matches no newline.
Groups(g1, g3) ==
    [matched |-> NoNewline(g1) /\ (g3 = GroupNone \/ NoNewline(g3)),
     g1 |-> g1, g3 |-> g3]
RefGroupsAt(ref, c) ==
    IF c = 0 THEN Groups(ref, GroupNone)
    ELSE Groups(SubStr(ref, 1, c - 1), lstrip(SubStr(ref, c + 1, Len(ref))))
RefGroups(ref) == RefGroupsAt(ref, FirstIndex(ref, ","))

\* (getString(m.group(1)), getString(m.group(3))): the first raise wins
TypedPair(r, d) ==
    IF r.status # "ok" THEN Raise(r.status)
    ELSE IF d.status # "ok" THEN Raise(d.status)
    ELSE Return(<<r.val, d.val>>)

\* returns (reference, default) or raises
processRef(ref) ==
    Bind(RefGroups(ref), LAMBDA m :
        IF m.matched
        THEN TypedPair(getString(m.g1), getString(m.g3))
        ELSE Raise("IllegalInput"))

(***************************************************************************)
(* The lookup expression grammar of __replaceLookup                        *)
(***************************************************************************)
\* The groups of  (?P<type>~~?)\s?(?P<function>\w+?)\s?\((?P<ref>.*?)\)$
\* matched at the start of value.

\* ~~? is greedy; a third ~ can be neither \s nor \w
Sigils(value) ==
    IF Len(value) >= 2 /\ value[1] = "~" /\ value[2] = "~" THEN 2
    ELSE IF Len(value) >= 1 /\ value[1] = "~" THEN 1 ELSE 0

\* the pattern without \s?: no white space is skipped
SkipSpace_None(value, i) == i

\* \s? at index i: at most one white space character is skipped
SkipSpace(value, i) ==
    IF i >= 1 /\ i <= Len(value) /\ IsSpace(value[i]) THEN i + 1 ELSE i

\* \w+? followed by \s?\( : the whole run of word characters from index f1
WordEnd(value, f1) ==
    IF \E i \in f1..Len(value) : ~IsWord(value[i])
    THEN (CHOOSE i \in f1..Len(value) :
            ~IsWord(value[i]) /\ \A j \in f1..(i - 1) : IsWord(value[j])) - 1
    ELSE Len(value)

\* \)$ : the parenthesis that ends the string, or that precedes a final newline
CloseIndex(value) ==
    IF value # <<>> /\ value[Len(value)] = "\n" THEN Len(value) - 1 ELSE Len(value)

\* the pattern without its closing \)
MatchGroups_NoCloseParen(value, nt, f1, wordEnd, open, close) ==
    IF /\ nt > 0
       /\ wordEnd >= f1
       /\ open >= 1 /\ open <= Len(value) /\ value[open] = "("
       /\ NoNewline(SubStr(value, open + 1, close))
    THEN [matched |-> TRUE, type |-> nt,
          function |-> SubStr(value, f1, wordEnd),
          ref |-> SubStr(value, open + 1, close)]
    ELSE [matched |-> FALSE, type |-> 0, function |-> <<>>, ref |-> <<>>]

MatchGroups(value, nt, f1, wordEnd, open, close) ==
    IF /\ nt > 0
       /\ wordEnd >= f1
       /\ open >= 1 /\ open <= Len(value) /\ value[open] = "("
       /\ close > open
       /\ value[close] = ")"
       /\ NoNewline(SubStr(value, open + 1, close - 1))
    THEN [matched |-> TRUE, type |-> nt,
          function |-> SubStr(value, f1, wordEnd),
          ref |-> SubStr(value, open + 1, close - 1)]
    ELSE [matched |-> FALSE, type |-> 0, function |-> <<>>, ref |-> <<>>]

MatchLookup(value) ==
    Bind(Sigils(value), LAMBDA nt :
    Bind(SkipSpace(value, nt + 1), LAMBDA f1 :
    Bind(WordEnd(value, f1), LAMBDA wordEnd :
        MatchGroups(value, nt, f1, wordEnd,
                    SkipSpace(value, wordEnd + 1), CloseIndex(value)))))

(***************************************************************************)
(* The lookup functions a caller registers (src/tests/test_uplook.py)      *)
(***************************************************************************)
\* number of integer values the backing store may hold besides the strings
MaxStoreInt == 0

een   == <<"e", "e", "n">>
fubar == <<"f", "u", "b", "a", "r">>
hello == <<"h", "e", "l", "l", "o">>
one   == <<"o", "n", "e">>

\* the keys of the backing store of dictLookup, and what a key may hold;
\* Missing marks a key the store does not have
Missing == [kind |-> "missing", val |-> <<>>]
StoreKeys == {PyStr(one)}
StoreVals == {PyStr(een), PyStr(fubar)} \cup {PyInt(i) : i \in 1..MaxStoreInt}

Functions == {"dictLookup", "getHello", "badLookup2"}

\* function(*args) for a registered function and a backing store
Invoke(function, args, st) ==
    CASE function = "dictLookup" ->
           IF Len(args) # 1 THEN Raise("TypeError")
           ELSE IF args[1] \in StoreKeys /\ st[args[1]] # Missing
                THEN Return(st[args[1]])
                ELSE Raise("NoSuchValue")
      [] function = "getHello" ->
           IF Len(args) # 0 THEN Raise("TypeError") ELSE Return(PyStr(hello))
      [] function = "badLookup2" ->
           IF Len(args) # 1 THEN Raise("TypeError") ELSE Raise("Exception")

\* one invocation of a registered function, as recorded in a call log: the
\* code that made it ("static": __generateStaticLookup, "dynamic": a closure
\* of __generateDynamicLookup), the name looked up in self.__lookup and the
\* arguments passed
CallRec(site, function, args) == [site |-> site, function |-> function, args |-> args]

\* the outcome of an operation: status and value, the functions it invoked in
\* order, and the names it left in __user_defined_functions
Outcome(r, calls, udf) ==
    [status |-> r.status, val |-> r.val, calls |-> calls, udf |-> udf]

(***************************************************************************)
(* UpLook: compilation of the arguments                                    *)
(***************************************************************************)
checkFunctionExists(function, lk) == function \in DOMAIN lk

\* the except clause left out: NoSuchValue reaches the caller whatever the default
ExceptNoSuchValue_NoExcept(r, default) == r

\* a bare except: every error of the function is replaced by the default
ExceptNoSuchValue_CatchAll(r, default) ==
    IF r.status # "ok"
    THEN IF default = Undef THEN Raise("NoSuchValue") ELSE Return(default)
    ELSE r

\* try: return ... except NoSuchValue: raise when default is Undef, else
\* return default; r is the outcome of the invocation
ExceptNoSuchValue(r, default) ==
    IF r.status = "NoSuchValue"
    THEN IF default = Undef THEN Raise("NoSuchValue") ELSE Return(default)
    ELSE r

\* a static lookup compiled like a dynamic one: a closure, nothing invoked
generateStaticLookup_Deferred(function, reference, default, lk, st) ==
    Outcome(Return(lookupRef(function, reference, default)), <<>>, <<>>)

\* __generateStaticLookup: the function is invoked now
generateStaticLookup(function, reference, default, lk, st) ==
    IF reference = Undef
    THEN Outcome(Invoke(lk[function], <<>>, st),
                 <<CallRec("static", function, <<>>)>>, <<>>)
    ELSE Outcome(ExceptNoSuchValue(Invoke(lk[function], <<reference>>, st), default),
                 <<CallRec("static", function, <<reference>>)>>, <<>>)

\* __generateDynamicLookup: a closure is returned, nothing is invoked
generateDynamicLookup(function, reference, default) ==
    IF reference = Undef
    THEN lookupNoRef(function)
    ELSE lookupRef(function, reference, default)

\* value() for a closure of __generateDynamicLookup; self.__lookup is read
\* when the closure runs
CallClosure(v, lk, st) ==
    IF v.kind = "lookupNoRef"
    THEN Outcome(Invoke(lk[v.val[1]], <<>>, st),
                 <<CallRec("dynamic", v.val[1], <<>>)>>, <<>>)
    ELSE Outcome(ExceptNoSuchValue(Invoke(lk[v.val[1]], <<v.val[2]>>, st), v.val[3]),
                 <<CallRec("dynamic", v.val[1], <<v.val[2]>>)>>, <<>>)

\* list.append without the membership test
AppendNew_Always(udf, function) == Append(udf, function)

\* list.append unless the name is already in the list
AppendNew(udf, function) ==
    IF \E i \in 1..Len(udf) : udf[i] = function THEN udf ELSE Append(udf, function)

\* the outcome o with the calls made before it and the names recorded so far
Then(calls, o, udf) ==
    [status |-> o.status, val |-> o.val, calls |-> calls \o o.calls, udf |-> udf]

\* an unregistered function raises instead of yielding None
unregistered_Raises(value) == Raise("NoSuchLookupFunction")

\* the else branch of __replaceLookup: the function is not registered
unregistered(value) == Return(PyNone)

\* __replaceLookup for a str value; udf is __user_defined_functions before the call
replaceLookup(value, lk, st, udf) ==
    Bind(MatchLookup(value.val), LAMBDA m :
        IF ~m.matched
        THEN Outcome(Return(value), <<>>, udf)
        ELSE IF checkFunctionExists(m.function, lk)
        THEN Bind(IF rstrip(lstrip(m.ref)) = <<>>
                  THEN Return(<<Undef, Undef>>)
                  ELSE processRef(rstrip(lstrip(m.ref))), LAMBDA pr :
                 IF pr.status # "ok"
                 THEN Outcome(Raise(pr.status), <<>>, AppendNew(udf, m.function))
                 ELSE IF m.type = 1
                 THEN Then(<<>>, generateStaticLookup(m.function, pr.val[1],
                                                      pr.val[2], lk, st),
                           AppendNew(udf, m.function))
                 ELSE Outcome(Return(generateDynamicLookup(m.function, pr.val[1],
                                                           pr.val[2])),
                              <<>>, AppendNew(udf, m.function)))
        ELSE Outcome(unregistered(value), <<>>, AppendNew(udf, m.function)))

\* __processKwargs: the items of kwargs in order; a raise ends the walk
RECURSIVE processKwargs(_, _, _, _)
processKwargs(kwargs, lk, st, udf) ==
    LET RECURSIVE walk(_, _, _, _)
        walk(i, result, calls, u) ==
            IF i > Len(kwargs)
            THEN Outcome(Return(Container(result)), calls, u)
            ELSE Bind(IF kwargs[i].value.kind = "dict" /\ kwargs[i].value.val # <<>>
                      THEN processKwargs(kwargs[i].value.val, lk, st, u)
                      ELSE IF kwargs[i].value.kind = "str"
                      THEN replaceLookup(kwargs[i].value, lk, st, u)
                      ELSE Outcome(Return(kwargs[i].value), <<>>, u), LAMBDA o :
                     IF o.status # "ok"
                     THEN Then(calls, o, o.udf)
                     ELSE walk(i + 1, Append(result, Item(kwargs[i].key, o.val)),
                               calls \o o.calls, o.udf))
    IN walk(1, <<>>, <<>>, udf)

(***************************************************************************)
(* Container: reading resolved values                                      *)
(***************************************************************************)
HasKey(items, k) == \E i \in 1..Len(items) : items[i].key = k
ValueOf(items, k) == items[CHOOSE i \in 1..Len(items) : items[i].key = k].value

\* dict(container): Container.__iter__ yields every attribute, a closure
\* as the value it returns and a nested Container as a dict
RECURSIVE ContainerIter(_, _, _)
ContainerIter(items, lk, st) ==
    LET RECURSIVE walk(_, _, _)
        walk(i, result, calls) ==
            IF i > Len(items)
            THEN Outcome(Return(PyDict(result)), calls, <<>>)
            ELSE Bind(IF IsCallable(items[i].value)
                      THEN CallClosure(items[i].value, lk, st)
                      ELSE IF items[i].value.kind = "container"
                      THEN ContainerIter(items[i].value.val, lk, st)
                      ELSE Outcome(Return(items[i].value), <<>>, <<>>), LAMBDA o :
                     IF o.status # "ok"
                     THEN Then(calls, o, <<>>)
                     ELSE walk(i + 1, Append(result, Item(items[i].key, o.val)),
                               calls \o o.calls))
    IN walk(1, <<>>, <<>>)

\* Container.__getattribute__(attr)
getattribute(container, attr, lk, st) ==
    IF ~HasKey(container.val, attr)
    THEN Outcome(Raise("NoSuchValue"), <<>>, <<>>)
    ELSE Bind(ValueOf(container.val, attr), LAMBDA value :
             IF value.kind = "container" THEN ContainerIter(value.val, lk, st)
             ELSE IF IsCallable(value) THEN CallClosure(value, lk, st)
             ELSE Outcome(Return(value), <<>>, <<>>))

\* a read-only container: the assignment changes nothing
SetItem_ReadOnly(items, k, v) == items

\* setattr(container, key, v): Container defines no __setattr__
SetItem(items, k, v) ==
    IF HasKey(items, k)
    THEN [i \in 1..Len(items) |-> IF items[i].key = k THEN Item(k, v) ELSE items[i]]
    ELSE Append(items, Item(k, v))

(***************************************************************************)
(* UpLook.dump and UpLook.iteritems                                        *)
(***************************************************************************)
\* buildDict({}, data) of dump(include_none)
RECURSIVE buildDict(_, _, _, _)
buildDict(data, include_none, lk, st) ==
    LET RECURSIVE walk(_, _, _)
        walk(i, result, calls) ==
            IF i > Len(data)
            THEN Outcome(Return(PyDict(result)), calls, <<>>)
            ELSE IF data[i].value = PyNone /\ ~include_none
            THEN walk(i + 1, result, calls)
            ELSE Bind(IF data[i].value.kind = "container"
                      THEN buildDict(data[i].value.val, include_none, lk, st)
                      ELSE IF IsCallable(data[i].value)
                      THEN CallClosure(data[i].value, lk, st)
                      ELSE Outcome(Return(data[i].value), <<>>, <<>>), LAMBDA o :
                     IF o.status # "ok"
                     THEN Then(calls, o, <<>>)
                     ELSE walk(i + 1, Append(result, Item(data[i].key, o.val)),
                               calls \o o.calls))
    IN walk(1, <<>>, <<>>)

dump(container, include_none, lk, st) == buildDict(container.val, include_none, lk, st)

\* list(u.iteritems()): (key, getattr(self.value, key)) for the top-level keys
iteritems(container, lk, st) ==
    LET RECURSIVE walk(_, _, _)
        walk(i, result, calls) ==
            IF i > Len(container.val)
            THEN Outcome(Return([kind |-> "list", val |-> result]), calls, <<>>)
            ELSE Bind(getattribute(container, container.val[i].key, lk, st), LAMBDA o :
                     IF o.status # "ok"
                     THEN Then(calls, o, <<>>)
                     ELSE walk(i + 1, Append(result, Item(container.val[i].key, o.val)),
                               calls \o o.calls))
    IN walk(1, <<>>, <<>>)

(***************************************************************************)
(* The arguments UpLook is constructed with                                *)
(***************************************************************************)
\* ~lookup("one")
StaticOne == PyStr(<<"~", "l", "o", "o", "k", "u", "p", "(", "\"", "o", "n", "e", "\"", ")">>)
\* ~~lookup("one")
DynamicOne == PyStr(<<"~", "~", "l", "o", "o", "k", "u", "p", "(", "\"", "o", "n", "e", "\"", ")">>)
\* ~lookup("four", "default")
StaticDefault == PyStr(<<"~", "l", "o", "o", "k", "u", "p", "(", "\"", "f", "o", "u", "r", "\"", ",", " ", "\"", "d", "e", "f", "a", "u", "l", "t", "\"", ")">>)
\* ~~lookup("four", none)
DynamicNone == PyStr(<<"~", "~", "l", "o", "o", "k", "u", "p", "(", "\"", "f", "o", "u", "r", "\"", ",", " ", "n", "o", "n", "e", ")">>)
\* ~hello()
StaticNoRef == PyStr(<<"~", "h", "e", "l", "l", "o", "(", ")">>)
\* ~~hello()
DynamicNoRef == PyStr(<<"~", "~", "h", "e", "l", "l", "o", "(", ")">>)
\* ~lookup("four")
StaticFour == PyStr(<<"~", "l", "o", "o", "k", "u", "p", "(", "\"", "f", "o", "u", "r", "\"", ")">>)
\* ~~hello("one", true)
DynamicTrue == PyStr(<<"~", "~", "h", "e", "l", "l", "o", "(", "\"", "o", "n", "e", "\"", ",", " ", "t", "r", "u", "e", ")">>)
\* ~~~lookup("one")
ThreeSigils == PyStr(<<"~", "~", "~", "l", "o", "o", "k", "u", "p", "(", "\"", "o", "n", "e", "\"", ")">>)
\* ~lookup("one"
Unterminated == PyStr(<<"~", "l", "o", "o", "k", "u", "p", "(", "\"", "o", "n", "e", "\"">>)
\* ~lookup(abc)
BadArgs == PyStr(<<"~", "l", "o", "o", "k", "u", "p", "(", "a", "b", "c", ")">>)

\* UpLook(one='~lookup("one")', two='~~lookup("one")',
\*        data={"one": '~lookup("one")', "two": '~~lookup("one")', "three": None})
BagLookups ==
    << Item("one", StaticOne), Item("two", DynamicOne),
       Item("data", PyDict(<< Item("one", StaticOne), Item("two", DynamicOne),
                              Item("three", PyNone) >>)) >>

\* UpLook(one='~lookup("four", "default")', two='~~lookup("four", none)',
\*        three=None, h='~hello()')
BagDefaults ==
    << Item("one", StaticDefault), Item("two", DynamicNone),
       Item("three", PyNone), Item("h", StaticNoRef) >>

\* UpLook(one='~~hello()', two='~lookup("four")', three='~~hello("one", true)')
BagNoDefault ==
    << Item("one", DynamicNoRef), Item("two", StaticFour), Item("three", DynamicTrue) >>

\* UpLook(one="een", n=1, b=True, three=None, data={"one": 1, "x": {"y": None}},
\*        e={}, s1='~lookup("one"', s3='~~~lookup("one")')
BagLiterals ==
    << Item("one", PyStr(een)), Item("n", PyInt(1)), Item("b", PyBool(TRUE)),
       Item("three", PyNone),
       Item("data", PyDict(<< Item("one", PyInt(1)),
                              Item("x", PyDict(<< Item("y", PyNone) >>)) >>)),
       Item("e", PyDict(<<>>)),
       Item("s1", Unterminated), Item("s3", ThreeSigils) >>

\* UpLook(one='~hello()', two='~lookup(abc)', three='~~~lookup("one")')
BagMalformed ==
    << Item("one", StaticNoRef), Item("two", BadArgs), Item("three", ThreeSigils) >>

ArgBags == {BagLookups, BagDefaults, BagNoDefault, BagLiterals, BagMalformed}

\* the names a caller registers functions under
lookupName == <<"l", "o", "o", "k", "u", "p">>
helloName  == <<"h", "e", "l", "l", "o">>
Names == {lookupName, helloName}

\* the attribute of the container a caller assigns to, and what it assigns
AssignKeys == {"one"}
AssignVals == {PyStr(fubar), PyNone}

(***************************************************************************)
(* State                                                                   *)
(***************************************************************************)
VARIABLES
    kwargs,                  \* self.__kwargs
    lookup,                  \* self.__lookup: name -> function
    user_defined_functions,  \* self.__user_defined_functions
    value,                   \* self.value
    lock,                    \* self.__lock
    store,                   \* the backing store of dictLookup
    assigned,                \* what the caller assigned on the current container: key -> value
    replaced,                \* the caller replaced self.value since the last compilation
    last                     \* the last operation of the caller and its outcome

vars == <<kwargs, lookup, user_defined_functions, value, lock, store, assigned,
          replaced, last>>

\* the engine's state as an operation finds it
Snapshot == [lookup |-> lookup, value |-> value,
             user_defined_functions |-> user_defined_functions, lock |-> lock,
             store |-> store]

Op(op, key, function, include_none, o) ==
    [op |-> op, key |-> key, function |-> function, include_none |-> include_none,
     status |-> o.status, val |-> o.val, calls |-> o.calls, pre |-> Snapshot]

NoKey == "nokey"
NoFunction == "nofunction"

\* self.value = self.__processKwargs(kwargs) in __init__, o its outcome
Constructed(o) ==
    /\ value = IF o.status = "ok" THEN o.val ELSE Container(<<>>)
    /\ user_defined_functions = o.udf
    /\ last = [op |-> "construct", key |-> NoKey, function |-> NoFunction,
               include_none |-> TRUE, status |-> o.status, val |-> PyNone,
               calls |-> o.calls,
               pre |-> [lookup |-> <<>>, value |-> Container(<<>>),
                        user_defined_functions |-> <<>>, lock |-> FALSE,
                        store |-> store]]

\* UpLook.__init__(**kwargs)
Init ==
    /\ kwargs \in ArgBags
    /\ store \in [StoreKeys -> {Missing, PyStr(een)}]
    /\ lookup = <<>>
    /\ Constructed(processKwargs(kwargs, <<>>, store, <<>>))
    /\ lock = (last.status = "ok")
    /\ assigned = <<>>
    /\ replaced = FALSE

\* a constructor that raised leaves no object to call
Constructs == ~(last.op = "construct" /\ last.status # "ok")

\* self.__dict__["_UpLook__lookup"][key] = function
SetLookup(lk, key, function) ==
    [n \in (DOMAIN lk) \cup {key} |-> IF n = key THEN function ELSE lk[n]]

\* registerLookup without the recompilation of the arguments
registerLookup_NoRecompile(key, function) ==
    /\ Constructs
    /\ lookup' = SetLookup(lookup, key, function)
    /\ last' = Op("registerLookup", key, function, TRUE,
                  Outcome(Raise("ok"), <<>>, user_defined_functions))
    /\ UNCHANGED <<kwargs, store, user_defined_functions, value, lock, assigned, replaced>>

\* a recompilation that patches the previous tree: what the caller assigned
\* on it is kept
Recompiled_Patched(key, function, o) ==
    /\ user_defined_functions' = o.udf
    /\ value' = IF o.status = "ok"
                THEN Container([i \in 1..Len(o.val.val) |->
                         IF o.val.val[i].key \in DOMAIN assigned
                         THEN Item(o.val.val[i].key, assigned[o.val.val[i].key])
                         ELSE o.val.val[i]])
                ELSE value
    /\ lock' = (o.status = "ok")
    /\ assigned' = IF o.status = "ok" THEN <<>> ELSE assigned
    /\ replaced' = (o.status # "ok" /\ replaced)
    /\ last' = Op("registerLookup", key, function, TRUE,
                  Outcome(Raise(o.status), o.calls, o.udf))

\* self.value = self.__processKwargs(self.__kwargs) in registerLookup, o its
\* outcome: a raise leaves self.value and the cleared lock as they are
Recompiled(key, function, o) ==
    /\ user_defined_functions' = o.udf
    /\ value' = IF o.status = "ok" THEN o.val ELSE value
    /\ lock' = (o.status = "ok")
    /\ assigned' = IF o.status = "ok" THEN <<>> ELSE assigned
    /\ replaced' = (o.status # "ok" /\ replaced)
    /\ last' = Op("registerLookup", key, function, TRUE,
                  Outcome(Raise(o.status), o.calls, o.udf))

\* UpLook.registerLookup(key, function)
registerLookup(key, function) ==
    /\ Constructs
    /\ lookup' = SetLookup(lookup, key, function)
    /\ Recompiled(key, function,
                  processKwargs(kwargs, SetLookup(lookup, key, function), store,
                                user_defined_functions))
    /\ UNCHANGED <<kwargs, store>>

TopKeys == {value.val[i].key : i \in 1..Len(value.val)}

\* u.value.<attr>
Read(attr) ==
    /\ Constructs
    /\ last' = Op("read", attr, NoFunction, TRUE, getattribute(value, attr, lookup, store))
    /\ UNCHANGED <<kwargs, lookup, user_defined_functions, value, lock, store, assigned,
                   replaced>>

\* u.dump(include_none)
Dump(include_none) ==
    /\ Constructs
    /\ last' = Op("dump", NoKey, NoFunction, include_none,
                  dump(value, include_none, lookup, store))
    /\ UNCHANGED <<kwargs, lookup, user_defined_functions, value, lock, store, assigned,
                   replaced>>

\* list(u.iteritems())
IterateItems ==
    /\ Constructs
    /\ last' = Op("iteritems", NoKey, NoFunction, TRUE, iteritems(value, lookup, store))
    /\ UNCHANGED <<kwargs, lookup, user_defined_functions, value, lock, store, assigned,
                   replaced>>

\* list(u.listFunctions())
listFunctions ==
    /\ Constructs
    /\ last' = Op("listFunctions", NoKey, NoFunction, TRUE,
                  Outcome(Return([kind |-> "list", val |-> user_defined_functions]),
                          <<>>, <<>>))
    /\ UNCHANGED <<kwargs, lookup, user_defined_functions, value, lock, store, assigned,
                   replaced>>

\* u.get().<key> = v, the same as u.value.<key> = v
SetValue(key, v) ==
    /\ Constructs
    /\ value' = Container(SetItem(value.val, key, v))
    /\ last' = Op("setvalue", key, NoFunction, TRUE, Outcome(Return(v), <<>>, <<>>))
    /\ assigned' = [k \in (DOMAIN assigned) \cup {key} |->
                        IF k = key THEN v ELSE assigned[k]]
    /\ UNCHANGED <<kwargs, lookup, user_defined_functions, lock, store, replaced>>

\* the caller's backing store changes: db[k] = v, or del db[k]
MutateStore(k, v) ==
    /\ Constructs
    /\ store[k] # v
    /\ store' = [store EXCEPT ![k] = v]
    /\ last' = Op("store", NoKey, NoFunction, TRUE, Outcome(Return(v), <<>>, <<>>))
    /\ UNCHANGED <<kwargs, lookup, user_defined_functions, value, lock, assigned, replaced>>

\* what a caller assigns to u.value: Container(one="fubar")
ReplaceVals == {Container(<< Item("one", PyStr(fubar)) >>)}

\* u.value = v: UpLook.__setattr__("value", v) raises while the lock is set
setattr(v) ==
    /\ Constructs
    /\ last' = Op("setattr", "value", NoFunction, TRUE,
                  Outcome(IF lock THEN Raise("Exception") ELSE Return(v), <<>>, <<>>))
    /\ value' = IF lock THEN value ELSE v
    /\ assigned' = IF lock THEN assigned ELSE <<>>
    /\ replaced' = (replaced \/ ~lock)
    /\ UNCHANGED <<kwargs, lookup, user_defined_functions, lock, store>>

Next ==
    \/ \E key \in Names, function \in Functions : registerLookup(key, function)
    \/ \E v \in ReplaceVals : setattr(v)
    \/ \E attr \in TopKeys \cup {NoKey} : Read(attr)
    \/ \E include_none \in BOOLEAN : Dump(include_none)
    \/ IterateItems
    \/ listFunctions
    \/ \E key \in AssignKeys, v \in AssignVals : SetValue(key, v)
    \/ \E k \in StoreKeys, v \in StoreVals \cup {Missing} : MutateStore(k, v)

Spec == Init /\ [][Next]_vars

(***************************************************************************)
(* Reading the argument tree and the resolved tree                         *)
(***************************************************************************)
IsMapping(node) == node.kind \in {"dict", "container"}

\* the key paths of a nested mapping
RECURSIVE PathsOf(_)
PathsOf(node) ==
    IF ~IsMapping(node) THEN {<<>>}
    ELSE {<<>>} \cup UNION { { <<node.val[i].key>> \o p : p \in PathsOf(node.val[i].value) }
                             : i \in 1..Len(node.val) }

\* the node a key path leads to, Missing when there is none
RECURSIVE At(_, _)
At(node, path) ==
    IF path = <<>> THEN node
    ELSE IF IsMapping(node) /\ HasKey(node.val, Head(path))
         THEN At(ValueOf(node.val, Head(path)), Tail(path))
         ELSE Missing

ArgPaths == PathsOf(PyDict(kwargs)) \ {<<>>}

four == <<"f", "o", "u", "r">>
default == <<"d", "e", "f", "a", "u", "l", "t">>

\* what the lookup expressions of the arguments say: sigils, function name,
\* positional arguments and default
Meaning(e) ==
    CASE e = StaticOne     -> [sigils |-> 1, name |-> lookupName, args |-> <<PyStr(one)>>, default |-> Undef]
      [] e = DynamicOne    -> [sigils |-> 2, name |-> lookupName, args |-> <<PyStr(one)>>, default |-> Undef]
      [] e = StaticDefault -> [sigils |-> 1, name |-> lookupName, args |-> <<PyStr(four)>>, default |-> PyStr(default)]
      [] e = DynamicNone   -> [sigils |-> 2, name |-> lookupName, args |-> <<PyStr(four)>>, default |-> PyNone]
      [] e = StaticNoRef   -> [sigils |-> 1, name |-> helloName, args |-> <<>>, default |-> Undef]
      [] e = DynamicNoRef  -> [sigils |-> 2, name |-> helloName, args |-> <<>>, default |-> Undef]
      [] e = StaticFour    -> [sigils |-> 1, name |-> lookupName, args |-> <<PyStr(four)>>, default |-> Undef]
      [] e = DynamicTrue   -> [sigils |-> 2, name |-> helloName, args |-> <<PyStr(one)>>, default |-> PyBool(TRUE)]
      [] e = BadArgs       -> [sigils |-> 1, name |-> lookupName, args |-> <<>>, default |-> Undef]
      [] OTHER             -> [sigils |-> 0, name |-> <<>>, args |-> <<>>, default |-> Undef]

IsLookupShaped(e) == Meaning(e).sigils > 0
IsStaticExpr(e)  == Meaning(e).sigils = 1 /\ e # BadArgs
IsDynamicExpr(e) == Meaning(e).sigils = 2

\* the argument at a key path and its reading
Arg(p) == At(PyDict(kwargs), p)
IsRegistered(p) == Meaning(Arg(p)).name \in DOMAIN lookup

\* the last operation compiled the arguments
Compiles == last.op \in {"construct", "registerLookup"}

(***************************************************************************)
(* Properties                                                              *)
(***************************************************************************)
\* C1: after a registerLookup(name, f) that returns, every static expression
\* of the arguments, at any nesting level, whose function name is name and
\* for whose reference f returns a value, is resolved to that value.
C1_StaticResolvedOnRegister ==
    (last.op = "registerLookup" /\ last.status = "ok") =>
        \A p \in ArgPaths :
            LET e == At(PyDict(kwargs), p)
                r == Invoke(last.function, Meaning(e).args, store)
            IN (IsStaticExpr(e) /\ Meaning(e).name = last.key /\ r.status = "ok")
               => At(value, p) = r.val

\* a nested static expression that was null before the call now holds the
\* value of the function that replaced an earlier one
C1_Witness ==
    /\ last.op = "registerLookup" /\ last.status = "ok"
    /\ kwargs = BagLookups
    /\ last.key = lookupName /\ last.function = "dictLookup"
    /\ lookupName \in DOMAIN last.pre.lookup
    /\ last.pre.lookup[lookupName] # "dictLookup"
    /\ At(last.pre.value, <<"data", "one">>) = PyNone
    /\ At(value, <<"data", "one">>) = PyStr(een)
    /\ At(value, <<"one">>) = PyStr(een)

\* the invocations of an operation made by closures of dynamic lookups
DynamicCalls(calls) == SelectSeq(calls, LAMBDA c : c.site = "dynamic")

\* the paths of the dynamic expressions whose function name is in the
\* registry, under top-level keys the caller did not assign
RegisteredDynamicPaths ==
    {p \in ArgPaths : /\ IsDynamicExpr(At(PyDict(kwargs), p))
                      /\ Meaning(At(PyDict(kwargs), p)).name \in DOMAIN lookup
                      /\ p[1] \notin DOMAIN assigned}

\* what a function of the registry returns now for the expression at path p
InvokeNow(p) ==
    LET m == Meaning(At(PyDict(kwargs), p))
    IN Invoke(lookup[m.name], m.args, store)

\* C2: for a dynamic expression whose function is registered, construction
\* and registerLookup invoke the function zero times; every read of its key
\* and every dump invokes it exactly once and returns what that invocation
\* returned.
C2_DynamicInvokedOncePerRead ==
    /\ last.op \in {"construct", "registerLookup"} => DynamicCalls(last.calls) = <<>>
    /\ \A p \in RegisteredDynamicPaths :
         LET m == Meaning(At(PyDict(kwargs), p))
         IN /\ (last.op = "read" /\ last.key = p[1] /\ Len(p) = 1)
                 => /\ last.calls = <<CallRec("dynamic", m.name, m.args)>>
                    /\ InvokeNow(p).status = "ok"
                         => (last.status = "ok" /\ last.val = InvokeNow(p).val)
            /\ (last.op = "read" /\ last.key = p[1] /\ Len(p) > 1 /\ last.status = "ok")
                 => /\ Len(DynamicCalls(last.calls))
                         = Cardinality({q \in RegisteredDynamicPaths : q[1] = p[1]})
                    /\ InvokeNow(p).status = "ok"
                         => At(last.val, Tail(p)) = InvokeNow(p).val
            /\ (last.op = "dump" /\ last.status = "ok")
                 => /\ Len(DynamicCalls(last.calls)) = Cardinality(RegisteredDynamicPaths)
                    /\ InvokeNow(p).status = "ok"
                         => At(last.val, p) = InvokeNow(p).val

\* C2 where the container was produced by the last registerLookup call (the
\* write lock is set again only when registerLookup returns)
C2_WhenLastRegisterReturned == lock => C2_DynamicInvokedOncePerRead

\* C3: a lookup-shaped argument whose function name is not in the registry
\* is resolved to None, and a compilation raises only when some
\* lookup-shaped argument names a registered function.
C3_UnregisteredResolvesToNone ==
    /\ \A p \in ArgPaths :
         (IsLookupShaped(Arg(p)) /\ ~IsRegistered(p) /\ p[1] \notin DOMAIN assigned
            /\ ~replaced)
           => At(value, p) = PyNone
    /\ (Compiles /\ last.status # "ok")
         => \E p \in ArgPaths : IsLookupShaped(Arg(p)) /\ IsRegistered(p)

\* registerLookup returned although the arguments hold an expression with
\* malformed argument text whose function is not registered
C3_Witness ==
    /\ kwargs = BagMalformed
    /\ last.op = "registerLookup" /\ last.status = "ok"
    /\ DOMAIN lookup = {helloName}
    /\ Arg(<<"two">>) = BadArgs
    /\ At(value, <<"two">>) = PyNone
    /\ At(value, <<"one">>) = PyStr(hello)

\* the static expressions whose registered function signals NoSuchValue now
StaticNoSuchValue ==
    {p \in ArgPaths : /\ IsStaticExpr(Arg(p)) /\ IsRegistered(p)
                      /\ InvokeNow(p).status = "NoSuchValue"}

\* the last operation read the top-level key of the dynamic expression at p
\* and the closure invoked the function
ReadInvoked(p) ==
    /\ Len(p) = 1 /\ IsDynamicExpr(Arg(p))
    /\ last.op = "read" /\ last.key = p[1] /\ last.calls # <<>>

\* C4: when a registered function signals NoSuchValue, an expression with a
\* default is resolved to the default and one without raises NoSuchValue:
\* for a static lookup in the registerLookup call, for a dynamic lookup at
\* the read, never in the compilation.
C4_DefaultOnNoSuchValue ==
    /\ last.op = "registerLookup" =>
         /\ \A p \in StaticNoSuchValue :
              IF Meaning(Arg(p)).default = Undef
              THEN last.status # "ok"
              ELSE last.status = "ok" => At(value, p) = Meaning(Arg(p)).default
         /\ last.status = "NoSuchValue"
              => \E p \in StaticNoSuchValue : Meaning(Arg(p)).default = Undef
    /\ Compiles => DynamicCalls(last.calls) = <<>>
    /\ \A p \in ArgPaths :
         (ReadInvoked(p) /\ InvokeNow(p).status = "NoSuchValue")
           => IF Meaning(Arg(p)).default = Undef
              THEN last.status = "NoSuchValue"
              ELSE last.status = "ok" /\ last.val = Meaning(Arg(p)).default

\* a read of a dynamic lookup falls back to its default None while the
\* static lookup beside it holds its default
C4_Witness ==
    /\ kwargs = BagDefaults
    /\ lookupName \in DOMAIN lookup /\ lookup[lookupName] = "dictLookup"
    /\ ReadInvoked(<<"two">>)
    /\ InvokeNow(<<"two">>).status = "NoSuchValue"
    /\ last.status = "ok" /\ last.val = PyNone
    /\ At(value, <<"one">>) = PyStr(default)

Failure == {"Exception", "TypeError"}

IsLiteral(e) == e # Missing /\ ~IsMapping(e) /\ ~IsLookupShaped(e)

\* a mapping that holds no lookup expression at any level
IsLiteralMapping(e) ==
    IsMapping(e) /\ \A q \in PathsOf(e) : ~IsLookupShaped(At(e, q))

\* C6: an argument that is no lookup expression is resolved to itself at
\* every nesting level, and a read of its top-level key returns it, in every
\* state the caller can reach without assigning that key.
C6_LiteralsUnchanged ==
    /\ \A p \in ArgPaths :
         (IsLiteral(Arg(p)) /\ p[1] \notin DOMAIN assigned /\ ~replaced)
           => /\ At(value, p) = Arg(p)
              /\ (last.op = "read" /\ last.key = p[1] /\ last.status = "ok")
                   => At(last.val, Tail(p)) = Arg(p)
    /\ \A p \in ArgPaths :
         (Len(p) = 1 /\ (IsLiteral(Arg(p)) \/ IsLiteralMapping(Arg(p)))
            /\ p[1] \notin DOMAIN assigned /\ ~replaced
            /\ last.op = "read" /\ last.key = p[1])
           => last.status = "ok" /\ last.val = Arg(p)

\* a string with three sigils is read back after the function it names was
\* registered
C6_Witness ==
    /\ kwargs = BagLiterals
    /\ lookupName \in DOMAIN lookup /\ lookup[lookupName] = "dictLookup"
    /\ last.op = "read" /\ last.key = "s3"
    /\ last.val = ThreeSigils

\* C7: a registerLookup call that raises leaves the registry and the
\* resolved tree as they were before the call.
C7_FailedRegisterDiscarded ==
    (last.op = "registerLookup" /\ last.status # "ok")
      => /\ lookup = last.pre.lookup
         /\ value = last.pre.value
         /\ user_defined_functions = last.pre.user_defined_functions

\* no key of a dumped mapping, at any level, holds None
NoNoneIn(d) == \A q \in PathsOf(d) : At(d, q) # PyNone

\* C8: dump(include_none=False) holds, at every nesting level, no key whose
\* value is None and every key whose value is not None; dump() holds every
\* key.
C8_DumpWithoutNone ==
    (last.op = "dump" /\ last.status = "ok") =>
        IF last.include_none
        THEN \A p \in PathsOf(value) : At(last.val, p) # Missing
        ELSE /\ NoNoneIn(last.val)
             /\ \A p \in PathsOf(value) :
                  (\A i \in 1..Len(p) : At(value, SubStr(p, 1, i)) # PyNone)
                    => At(last.val, p) # Missing

\* the leaves of the arguments in the order __processKwargs visits them
RECURSIVE Leaves(_)
Leaves(items) ==
    IF items = <<>> THEN <<>>
    ELSE (IF Head(items).value.kind = "dict"
          THEN Leaves(Head(items).value.val)
          ELSE <<Head(items).value>>) \o Leaves(Tail(items))

\* the distinct function names of a sequence of leaves, in first-seen order
RECURSIVE FirstSeen(_, _)
FirstSeen(leaves, seen) ==
    IF leaves = <<>> THEN seen
    ELSE FirstSeen(Tail(leaves),
                   IF IsLookupShaped(Head(leaves))
                      /\ \A i \in 1..Len(seen) : seen[i] # Meaning(Head(leaves)).name
                   THEN Append(seen, Meaning(Head(leaves)).name)
                   ELSE seen)

C10_AssignmentRejected ==
    last.op = "setvalue" => (last.status # "ok" /\ value = last.pre.value)

\* C10 amended: an assignment on the container is accepted; the key then
\* holds the assigned value, a read of the key and dump() return it, and the
\* other keys are unchanged.
C10_AssignmentAccepted ==
    /\ last.op = "setvalue" =>
         /\ last.status = "ok"
         /\ At(value, <<last.key>>) = last.val
         /\ \A k \in TopKeys \ {last.key} :
              At(value, <<k>>) = At(last.pre.value, <<k>>)
    /\ \A k \in DOMAIN assigned :
         /\ At(value, <<k>>) = assigned[k]
         /\ (last.op = "read" /\ last.key = k)
              => (last.status = "ok" /\ last.val = assigned[k])
         /\ (last.op = "dump" /\ last.include_none /\ last.status = "ok")
              => At(last.val, <<k>>) = assigned[k]

\* a dump returns the string assigned to a key that held a static lookup
C10_Witness ==
    /\ kwargs = BagLookups
    /\ last.op = "dump" /\ last.include_none /\ last.status = "ok"
    /\ "one" \in DOMAIN assigned /\ assigned["one"] = PyStr(fubar)
    /\ At(last.val, <<"one">>) = PyStr(fubar)
    /\ At(last.val, <<"data", "one">>) = PyStr(een)

\* the lookup expressions whose argument text is no zero, one or two typed
\* fields
IsMalformed(e) == e = BadArgs

\* C11: every compilation of arguments that hold a lookup expression with
\* malformed argument text raises to the caller of Construct or
\* registerLookup, and the expression never resolves to a value.
C11_MalformedFailsCompilation ==
    Compiles => \A p \in ArgPaths : IsMalformed(Arg(p)) => last.status # "ok"

(***************************************************************************)
(* Lookup expressions built from their tokens                              *)
(***************************************************************************)
\* the most white space characters one expression holds between its tokens
MaxWs == 2

Quoted(s) == <<"\"">> \o s \o <<"\"">>

\* sigils w1 name w2 ( w3 args w4 )
Call(sigils, w1, name, w2, w3, args, w4) ==
    PyStr(sigils \o w1 \o name \o w2 \o <<"(">> \o w3 \o args \o w4 \o <<")">>)

WsChars == {" ", "\t", "\n"}

\* the white space between the sigils and the name, the name and the
\* parenthesis, the parenthesis and the argument, the argument and the
\* closing parenthesis
GapLengths == {n \in (0..MaxWs) \X (0..MaxWs) \X (0..MaxWs) \X (0..MaxWs) :
                 n[1] + n[2] + n[3] + n[4] <= MaxWs}
WsQuads == UNION { [1..n[1] -> WsChars] \X [1..n[2] -> WsChars]
                     \X [1..n[3] -> WsChars] \X [1..n[4] -> WsChars] : n \in GapLengths }

\* ~~lookup("one") with white space between its tokens
WsExpr(q) == Call(<<"~", "~">>, q[1], lookupName, q[2], q[3], Quoted(one), q[4])
WsBags == {<< Item("one", WsExpr(q)) >> : q \in WsQuads}

\* the texts of one field of the argument text
abc == <<"a", "b", "c">>
Fields == { Quoted(een), <<"t", "r", "u", "e">>, <<"f", "a", "l", "s", "e">>,
            <<"n", "o", "n", "e">>, <<"1", "0">>, <<"1", "0", ".", "5">>,
            <<"0", "0", "7">>, <<"1", ".", "5", "0">>,
            abc, abc \o <<"\"">>, <<"\"">> \o abc, <<"1", ".">>,
            <<"T", "r", "u", "e">>, <<"n", "u", "l", "l">> }

\* ~lookup("four", <field>): the field is the default
DefaultExpr(f) ==
    Call(<<"~">>, <<>>, lookupName, <<>>, <<>>, Quoted(four) \o <<",", " ">> \o f, <<>>)
\* ~lookup(<field>): the field is the reference
ReferenceExpr(f) == Call(<<"~">>, <<>>, lookupName, <<>>, <<>>, f, <<>>)
FieldBags == {<< Item("one", DefaultExpr(f)) >> : f \in Fields}
               \cup {<< Item("one", ReferenceExpr(f)) >> : f \in Fields}

\* ~lookup("a", "b", "c") and ~lookup(1, 2, 3)
ThreeQuoted == Call(<<"~">>, <<>>, lookupName, <<>>, <<>>,
                    Quoted(<<"a">>) \o <<",", " ">> \o Quoted(<<"b">>)
                      \o <<",", " ">> \o Quoted(<<"c">>), <<>>)
ThreeNumbers == Call(<<"~">>, <<>>, lookupName, <<>>, <<>>,
                     <<"1", ",", " ", "2", ",", " ", "3">>, <<>>)
ThreeFieldBags == {<< Item("one", ThreeQuoted) >>, << Item("one", ThreeNumbers) >>}

ExprBags == WsBags \cup FieldBags \cup ThreeFieldBags

\* UpLook(one=<expression>)
InitExpr ==
    /\ kwargs \in ExprBags
    /\ store \in [StoreKeys -> {Missing, PyStr(een)}]
    /\ lookup = <<>>
    /\ Constructed(processKwargs(kwargs, <<>>, store, <<>>))
    /\ lock = (last.status = "ok")
    /\ assigned = <<>>
    /\ replaced = FALSE

\* the caller registers dictLookup as lookup, reads, dumps and changes the
\* backing store
NextExpr ==
    \/ registerLookup(lookupName, "dictLookup")
    \/ \E attr \in TopKeys : Read(attr)
    \/ Dump(TRUE)
    \/ \E k \in StoreKeys, v \in StoreVals \cup {Missing} : MutateStore(k, v)

SpecExpr == InitExpr /\ [][NextExpr]_vars

\* a field the typing precedence rejects
NotTyped == [kind |-> "invalid", val |-> <<>>]

\* the typing precedence of a field: quoted text, true and false, none,
\* digits, digits-dot-digits; any other token is rejected
TypedAs(f) ==
    CASE f = Quoted(een)               -> PyStr(een)
      [] f = <<"t", "r", "u", "e">>      -> PyBool(TRUE)
      [] f = <<"f", "a", "l", "s", "e">> -> PyBool(FALSE)
      [] f = <<"n", "o", "n", "e">>      -> PyNone
      [] f = <<"1", "0">>                -> PyInt(10)
      [] f = <<"0", "0", "7">>           -> PyInt(7)
      [] f = <<"1", "0", ".", "5">>      -> PyFloat(10, <<"5">>)
      [] f = <<"1", ".", "5", "0">>      -> PyFloat(1, <<"5">>)
      [] OTHER                           -> NotTyped

\* C12: each field of the argument text is typed by the precedence quoted
\* text, true/false, none, digits, digits-dot-digits, and any other token
\* fails the evaluation; with a function that signals NoSuchValue a typed
\* default, none included, is the resolved value.
C12_FieldTyping ==
    (last.op = "registerLookup" /\ last.function = "dictLookup") =>
        \A f \in Fields :
            /\ kwargs = << Item("one", DefaultExpr(f)) >>
                 => IF TypedAs(f) = NotTyped
                    THEN last.status = "InvalidValue"
                    ELSE last.status = "ok" /\ At(value, <<"one">>) = TypedAs(f)
            /\ kwargs = << Item("one", ReferenceExpr(f)) >>
                 => IF TypedAs(f) = NotTyped
                    THEN last.status = "InvalidValue"
                    ELSE last.calls = <<CallRec("static", lookupName, <<TypedAs(f)>>)>>

\* the expression of the arguments differs from ~~lookup("one") by the white
\* space q only
IsWsExpr(q) == kwargs = << Item("one", WsExpr(q)) >>

\* the expression is compiled as the dynamic lookup of "one" by lookup: the
\* name is recorded, the tree holds the closure once lookup is registered,
\* and a read invokes lookup("one") and returns what the store holds
SameDynamicLookup ==
    /\ user_defined_functions = <<lookupName>>
    /\ lookupName \in DOMAIN lookup
         => At(value, <<"one">>) = lookupRef(lookupName, PyStr(one), Undef)
    /\ (lookupName \in DOMAIN lookup /\ last.op = "read")
         => /\ last.calls = <<CallRec("dynamic", lookupName, <<PyStr(one)>>)>>
            /\ store[PyStr(one)] # Missing
                 => (last.status = "ok" /\ last.val = store[PyStr(one)])

\* C13 as stated: every string that differs from ~~lookup("one") only by
\* white space between its tokens is the same dynamic lookup.
C13_WhitespaceIgnored ==
    \A q \in WsQuads : IsWsExpr(q) => SameDynamicLookup

\* C13 amended: at most one white space character between the sigils and
\* the name and between the name and the parenthesis, and any white space
\* but a newline inside the parentheses, leave the dynamic lookup the same.
C13_OptionalWhitespace ==
    \A q \in WsQuads :
        (IsWsExpr(q) /\ Len(q[1]) <= 1 /\ Len(q[2]) <= 1
           /\ NoNewline(q[3]) /\ NoNewline(q[4]))
          => SameDynamicLookup

\* '~~ lookup ("one")' is read as "fubar" after the store changed
C13_Witness ==
    /\ IsWsExpr(<< <<" ">>, <<" ">>, <<>>, <<>> >>)
    /\ lookupName \in DOMAIN lookup
    /\ last.op = "read" /\ last.status = "ok"
    /\ last.val = PyStr(fubar)
    /\ last.pre.store[PyStr(one)] = PyStr(fubar)

\* C16: argument text with three comma-separated fields fails the
\* evaluation in the compilation that evaluates it: no function is invoked
\* with a reference taken from it and no default is taken from it.
C16_ThreeFieldsRejected ==
    (last.op = "registerLookup" /\ kwargs \in ThreeFieldBags)
      => /\ last.status \in {"InvalidValue", "IllegalInput"}
         /\ last.calls = <<>>

\* C17: whenever the caller has control after Construct returned, also
\* after a registerLookup call that raised, the write lock is set and an
\* assignment to an attribute of the UpLook object raises and replaces
\* nothing.
C17_LockSetForCaller ==
    /\ Constructs => lock
    /\ last.op = "setattr" => (last.status = "Exception" /\ value = last.pre.value)

\* the invocations of an operation made by __generateStaticLookup
StaticCalls(calls) == SelectSeq(calls, LAMBDA c : c.site = "static")

\* the paths of the static expressions whose function name is in the registry
RegisteredStaticPaths ==
    {p \in ArgPaths : IsStaticExpr(Arg(p)) /\ IsRegistered(p)}

\* the invocation a compilation makes for the static expression at path p
StaticCall(p) == CallRec("static", Meaning(Arg(p)).name, Meaning(Arg(p)).args)

CountCalls(calls, c) == Cardinality({i \in 1..Len(calls) : calls[i] = c})
CountPaths(c) == Cardinality({p \in RegisteredStaticPaths : StaticCall(p) = c})

\* the static paths whose value the engine put in the tree and the caller
\* did not overwrite
FrozenPaths ==
    {p \in RegisteredStaticPaths : ~replaced /\ p[1] \notin DOMAIN assigned}

ExpectedLeaf(e) ==
    Bind(Meaning(e), LAMBDA m :
        IF m.sigils = 0 THEN e
        ELSE IF m.name \notin DOMAIN lookup THEN PyNone
        ELSE IF m.sigils = 2
        THEN (IF m.args = <<>> THEN lookupNoRef(m.name)
              ELSE lookupRef(m.name, m.args[1], m.default))
        ELSE Bind(Invoke(lookup[m.name], m.args, store), LAMBDA r :
                 IF r.status = "ok" THEN r.val ELSE m.default))

\* the keys of a mapping in order
KeysOf(node) == [i \in 1..Len(node.val) |-> node.val[i].key]

\* C15: after a registerLookup call that returned, the resolved tree is the
\* compilation of the arguments the engine was constructed with against the
\* current registry, whatever the previous tree held, whatever the caller
\* changed on it and in whatever order the names were registered.
C15_TreeIsCompilationOfArguments ==
    (last.op = "registerLookup" /\ last.status = "ok") =>
        /\ PathsOf(value) = PathsOf(PyDict(kwargs))
        /\ \A p \in ArgPaths :
             IF IsMapping(Arg(p))
             THEN IF Arg(p).val = <<>>
                  THEN At(value, p) = Arg(p)
                  ELSE /\ At(value, p).kind = "container"
                       /\ KeysOf(At(value, p)) = KeysOf(Arg(p))
             ELSE At(value, p) = ExpectedLeaf(Arg(p))

\* both names are registered and the key one, to which the caller had
\* assigned "fubar" on the previous tree, holds the static value again
C15_Witness ==
    /\ kwargs = BagLookups
    /\ last.op = "registerLookup" /\ last.status = "ok"
    /\ DOMAIN lookup = {lookupName, helloName}
    /\ lookup[lookupName] = "dictLookup"
    /\ At(last.pre.value, <<"one">>) = PyStr(fubar)
    /\ At(value, <<"one">>) = PyStr(een)
    /\ At(value, <<"data", "two">>) = lookupRef(lookupName, PyStr(one), Undef)

====
